---- MODULE Spec2Model ----
(***************************************************************************)
(* SniperBot: the two-stage scanning pipeline (run_scanner.py) and the     *)
(* scoring engine (scanner_logic.py).                                      *)
(*                                                                         *)
(* Spec        run_scanner: credentials, client, universe resolution       *)
(*             (get_all_tickers), batches, fast filter, deep analysis,     *)
(*             signal emission, summary.                                   *)
(* SpecScorer  SniperScorer.analyze_stock, one step per factor.            *)
(*                                                                         *)
(* Prices are integers in cents; a ticker symbol is a sequence of          *)
(* one-character strings, so that the cleaning filters act on characters.  *)
(***************************************************************************)
EXTENDS Integers, Sequences, FiniteSets, TLC

(* ------------------------------ bounds -------------------------------- *)

\* Longest listing (rows of the exchange listing / the index table) a source returns.
MaxRows == 3

\* run_scanner.py:15 sets 300; the model scales the batch size down so that a
\* universe of MaxRows tickers spans more than one batch.
BATCH_SIZE == 2

\* Longest news list the provider returns (the scorer reads the first three).
MaxNews == 4

(* ------------------------- program constants -------------------------- *)

SCORE_THRESHOLD == 75

\* 2.0 dollars, in cents.
MIN_PRICE == 200

\* 5,000,000 dollars, in cents (close is in cents, volume in shares).
MIN_DOLLAR_VOLUME == 500000000

\* The scorer's hard filter: current_price < 2 (dollars), in cents.
HARD_MIN_PRICE == 200

\* pandas' NaN for a missing close or volume; every comparison with it is false,
\* as every comparison of a negative number with the (positive) thresholds is.
NaN == -1

(* ------------------------------ helpers ------------------------------- *)

SeqsUpTo(S, n) == UNION {[1..k -> S] : k \in 0..n}

Range(s) == {s[k] : k \in 1..Len(s)}

Min(a, b) == IF a < b THEN a ELSE b

RECURSIVE SumSeq(_)
SumSeq(s) == IF s = <<>> THEN 0 ELSE Head(s) + SumSeq(Tail(s))

\* Python's  sub in text  on character sequences.
Contains(text, sub) ==
    \E k \in 0..(Len(text) - Len(sub)) :
        \A m \in 1..Len(sub) : text[k + m] = sub[m]

(* ------------------- get_all_tickers: symbol cleaning ------------------ *)

UpperChars ==
    <<"A","B","C","D","E","F","G","H","I","J","K","L","M",
      "N","O","P","Q","R","S","T","U","V","W","X","Y","Z">>

LowerChars ==
    <<"a","b","c","d","e","f","g","h","i","j","k","l","m",
      "n","o","p","q","r","s","t","u","v","w","x","y","z">>

\* The characters str.isalpha() accepts (of those the model's symbols use).
Alpha == Range(UpperChars) \cup Range(LowerChars)

\* '.' not in t and '-' not in t
NoDotDash(t) == ~Contains(t, <<".">>) /\ ~Contains(t, <<"-">>)

\* str.isalpha(): non-empty and every character alphabetic
isalpha(t) == Len(t) > 0 /\ \A k \in 1..Len(t) : t[k] \in Alpha

\* str.replace(old, new) for one-character old and new
replace(t, old, new) == [k \in 1..Len(t) |-> IF t[k] = old THEN new ELSE t[k]]

\* The primary path's two list comprehensions.
CleanPrimary(raw_tickers) == SelectSeq(SelectSeq(raw_tickers, NoDotDash), isalpha)

\* The fallback path: replace '.' by '-', then drop what holds '.' or '-'.
CleanFallback(symbols) ==
    SelectSeq([k \in 1..Len(symbols) |-> replace(symbols[k], ".", "-")], NoDotDash)

\* The raw symbols a source may list.
BRK_B == <<"B","R","K",".","B">>
ABC_W == <<"A","B","C","-","W">>
GOOG == <<"G","O","O","G">>
AB3 == <<"A","B","3">>

RawSymbols == {BRK_B, ABC_W, GOOG, AB3}

Listings == SeqsUpTo(RawSymbols, MaxRows)

\* What the primary request can come to: an exception (request, JSON, missing
\* key), a body whose data is empty, or rows.
PrimaryResponses ==
    {[kind |-> "throws", rows |-> <<>>], [kind |-> "nodata", rows |-> <<>>]}
        \cup {[kind |-> "rows", rows |-> r] : r \in Listings}

\* What the fallback request can come to: an exception or the table's Symbol column.
FallbackResponses ==
    {[kind |-> "throws", rows |-> <<>>]} \cup {[kind |-> "table", rows |-> r] : r \in Listings}

\* Mutant of PrimaryHasRows: a listing that cleans to nothing goes on to the
\* fallback.
PrimaryHasCleanRows(resp) ==
    resp.kind = "rows" /\ resp.rows # <<>> /\ CleanPrimary(resp.rows) # <<>>

\* if data['data'] and data['data']['rows']
PrimaryHasRows(resp) == resp.kind = "rows" /\ resp.rows # <<>>

(* ----------------------------- fast filter ----------------------------- *)

isna(x) == x = NaN

\* Mutant of PassesGate: the price bound made strict.
PassesGateStrict(close, volume) == close > MIN_PRICE /\ (close * volume) >= MIN_DOLLAR_VOLUME

\* close >= MIN_PRICE and (close * volume) >= MIN_DOLLAR_VOLUME
PassesGate(close, volume) == close >= MIN_PRICE /\ (close * volume) >= MIN_DOLLAR_VOLUME

\* The last rows the bulk download may hold for a ticker: (close, volume).
Rows ==
    { <<200, 2500000>>,     \* both bounds met exactly
      <<200, 2499999>>,     \* dollar volume one cent-share short
      <<199, 2600000>>,     \* enough dollar volume, price one cent short
      <<1000, 500000>>,     \* dollar volume met exactly at another price
      <<NaN, 2500000>>,
      <<200, NaN>> }

\* A ticker's slice of the bulk result: no column for it, an empty frame, a frame
\* whose last row cannot be read (raises), or a last row.
Slices ==
    {[kind |-> k, close |-> NaN, volume |-> NaN] : k \in {"absent", "empty", "malformed"}}
        \cup {[kind |-> "row", close |-> r[1], volume |-> r[2]] : r \in Rows}

\* One pass of the per-ticker loop body: the survivors it appends.
FilterTicker(ticker, df) ==
    IF df.kind = "absent" THEN <<>>
    ELSE IF df.kind = "empty" THEN <<>>
    ELSE IF df.kind = "malformed" THEN <<>>
    ELSE IF isna(df.close) \/ isna(df.volume) THEN <<>>
    ELSE IF PassesGate(df.close, df.volume) THEN << <<ticker, df.close>> >>
    ELSE <<>>

\* for ticker in batch: ...   (data maps each symbol of the batch to its slice)
RECURSIVE FastFilter(_, _)
FastFilter(batch_, data_) ==
    IF batch_ = <<>> THEN <<>>
    ELSE FilterTicker(Head(batch_), data_[Head(batch_)]) \o FastFilter(Tail(batch_), data_)

(* ------------------------ SniperScorer: inputs ------------------------- *)

\* stock.history(period="1y"): an exception, a frame without a Close column, or
\* a frame of len bars whose last close is close (cents).  len 0 is hist.empty.
HistLens == {0, 14, 15, 199, 200}

HistCloses == {199, 200, 950}

HistOutcomes ==
    {[kind |-> k, len |-> 0, close |-> 0] : k \in {"throws", "malformed"}}
        \cup {[kind |-> "frame", len |-> n, close |-> c] : n \in HistLens, c \in HistCloses}

\* A factor's computation on the frame: what it computes, or an exception in it.
\* (sma20, sma50, sma200)
MAInputs ==
    {[kind |-> "raise", sma20 |-> 0, sma50 |-> 0, sma200 |-> 0]}
        \cup {[kind |-> "ok", sma20 |-> m[1], sma50 |-> m[2], sma200 |-> m[3]] :
                 m \in {<<3, 2, 1>>, <<3, 2, 2>>, <<2, 2, 1>>, <<1, 2, 3>>}}

\* (today's volume, mean volume of the 14 sessions before)
RVOLInputs ==
    {[kind |-> "raise", today_vol |-> 0, avg_vol_14 |-> 0]}
        \cup {[kind |-> "ok", today_vol |-> v[1], avg_vol_14 |-> v[2]] :
                 v \in {<<4, 2>>, <<3, 2>>, <<1, 2>>, <<1, 0>>}}

\* hist['High'].max(), cents
HighInputs ==
    {[kind |-> "raise", high_52w |-> 0]}
        \cup {[kind |-> "ok", high_52w |-> h] : h \in {200, 211, 1000, 1001}}

\* true_range.rolling(14).mean().iloc[-1], cents
ATRInputs ==
    {[kind |-> "raise", atr_14 |-> 0]}
        \cup {[kind |-> "ok", atr_14 |-> a] : a \in {9, 10, 48}}

\* Headlines.
T_Buy == <<"B","u","y">>
T_crash == <<"c","r","a","s","h">>
T_buy_crash == <<"b","u","y"," ","c","r","a","s","h">>
T_beat_record == <<"b","e","a","t"," ","r","e","c","o","r","d">>
T_plain == <<"Q","3">>

Titles == {T_Buy, T_crash, T_buy_crash, T_beat_record, T_plain}

\* stock.news: an exception, or the list of items' titles (most recent first).
NewsOutcomes ==
    {[kind |-> "throws", items |-> <<>>]}
        \cup {[kind |-> "list", items |-> n] : n \in SeqsUpTo(Titles, MaxNews)}

\* An item whose 'title' is None: its .lower() raises.
T_None == <<"<None>">>

\* stock.news as _analyze_sentiment may meet it, unreadable items included.
SentimentNews ==
    NewsOutcomes
        \cup {[kind |-> "list", items |-> n] : n \in SeqsUpTo(Titles \cup {T_None}, MaxNews)}

\* stock.info: an exception, or the two keys read.  NoTarget: targetMeanPrice is
\* None or absent.  RecAbsent: recommendationKey absent (get's default '').
\* RecNone: recommendationKey present with value None.
NoTarget == -1

RecAbsent == <<>>
RecNone == <<"<None>">>
R_buy == <<"b","u","y">>
R_Buy == <<"B","u","y">>
R_strong_buy == <<"s","t","r","o","n","g","_","b","u","y">>
R_hold == <<"h","o","l","d">>

Recs == {RecAbsent, RecNone, R_buy, R_Buy, R_strong_buy, R_hold}

Targets == {NoTarget, 199, 200, 240, 241, 1141}

InfoOutcomes ==
    {[kind |-> "throws", targetMeanPrice |-> NoTarget, recommendationKey |-> RecAbsent]}
        \cup {[kind |-> "info", targetMeanPrice |-> t, recommendationKey |-> r] :
                 t \in Targets, r \in Recs}

(* ----------------------- SniperScorer: operators ----------------------- *)

\* str.lower()
lower(t) ==
    [k \in 1..Len(t) |->
        IF \E u \in 1..Len(UpperChars) : UpperChars[u] = t[k]
        THEN LowerChars[CHOOSE u \in 1..Len(UpperChars) : UpperChars[u] = t[k]]
        ELSE t[k]]

positive_keywords ==
    << <<"u","p","g","r","a","d","e">>, <<"b","u","y">>, <<"s","u","r","g","e">>,
       <<"j","u","m","p">>, <<"g","r","o","w","t","h">>, <<"b","e","a","t">>,
       <<"r","e","c","o","r","d">>, <<"b","u","l","l">> >>

negative_keywords ==
    << <<"d","o","w","n","g","r","a","d","e">>, <<"s","e","l","l">>, <<"d","r","o","p">>,
       <<"m","i","s","s">>, <<"l","o","s","s">>, <<"l","a","w","s","u","i","t">>,
       <<"c","r","a","s","h">> >>

\* for keyword in keywords: if keyword in title: sentiment_score += delta; break
RECURSIVE KeywordLoop(_, _, _)
KeywordLoop(title, keywords, delta) ==
    IF keywords = <<>> THEN 0
    ELSE IF Contains(title, Head(keywords)) THEN delta
    ELSE KeywordLoop(title, Tail(keywords), delta)

\* Mutant of TitleSentiment: the negative loop runs only when no positive
\* keyword matched.
TitleSentimentElif(title) ==
    IF KeywordLoop(lower(title), positive_keywords, 10) # 0
    THEN 10
    ELSE KeywordLoop(lower(title), negative_keywords, -20)

\* One headline's two keyword loops (each breaks at its first match).
TitleSentiment(title) ==
    KeywordLoop(lower(title), positive_keywords, 10)
        + KeywordLoop(lower(title), negative_keywords, -20)

\* TitleSentiment of every headline of the model, computed once.
SentimentOf == [title \in Titles |-> TitleSentiment(title)]

\* news[:3]
First3(items) == SubSeq(items, 1, Min(3, Len(items)))

\* _analyze_sentiment: an exception at the lookup or at an item of the loop
\* (its title's .lower()) returns 0 from the handler.
analyze_sentiment(news) ==
    IF news.kind = "throws" THEN 0
    ELSE IF news.items = <<>> THEN 0
    ELSE IF T_None \in Range(First3(news.items)) THEN 0
    ELSE SumSeq([k \in 1..Len(First3(news.items)) |-> SentimentOf[First3(news.items)[k]]])

\* "; ".join(details): the pieces of the joined string, separators included.
RECURSIVE Join(_)
Join(details_) ==
    IF Len(details_) <= 1 THEN details_
    ELSE <<Head(details_), "; ">> \o Join(Tail(details_))

\* A piece of a joined string that is not the separator.
NotSeparator(piece) == piece # "; "

\* details.split('; '): the pieces between the separators.
split(joined) == IF joined = <<>> THEN <<"">> ELSE SelectSeq(joined, NotSeparator)

\* score = 0; details = []; nothing looked up yet.  hist, info, calls, factors,
\* deltas and error are history: the frame and the analyst data the lookups
\* gave, the provider lookups made, the factors that appended a reason with the
\* contribution of each, and the exception that reached the outer handler.
NewAnalysis ==
    [pc |-> "history", score |-> 0, details |-> <<>>,
     hist |-> [kind |-> "none", len |-> 0, close |-> 0],
     info |-> [kind |-> "none", targetMeanPrice |-> NoTarget, recommendationKey |-> RecAbsent],
     len |-> 0, current_price |-> 0, calls |-> <<>>, factors |-> <<>>, deltas |-> <<>>,
     error |-> "",
     result |-> [final_score |-> 0, details |-> <<>>]]

\* return {...} from inside the try
Return(s, final_score, details_) ==
    [s EXCEPT !.pc = "ret", !.result = [final_score |-> final_score, details |-> details_]]

\* Mutant of Except: the handler reports the error but keeps what was accumulated.
ExceptKeepsPartial(s, e) == Return(s, s.score, Join(Append(s.details, "Error: " \o e)))

\* except Exception as e: return {'final_score': 0, 'details': f"Error: {str(e)}"}
Except(s, e) == Return(s, 0, <<"Error: " \o e>>)

\* An exception e raised where only the outer try encloses it.
Raise(s, e) == Except([s EXCEPT !.error = e], e)

\* A factor's outcome: its contribution and its reason.
Add(s, factor, delta, reason) ==
    [s EXCEPT !.score = @ + delta, !.details = Append(@, reason),
              !.factors = Append(@, factor), !.deltas = Append(@, delta)]

\* Mutant of StepHistory: the hard filter on the price left out.
StepHistoryNoHardFilter(s, hist) ==
    LET t == [s EXCEPT !.calls = Append(@, "history"), !.hist = hist] IN
    IF hist.kind = "throws" THEN Raise(t, "history")
    ELSE IF hist.kind = "frame" /\ hist.len = 0 THEN Return(t, 0, <<"No data found">>)
    ELSE IF hist.kind = "malformed" THEN Raise(t, "'Close'")
    ELSE [t EXCEPT !.pc = "ma", !.len = hist.len, !.current_price = hist.close]

\* Lines 16-27: the history lookup and the hard filter.
StepHistory(s, hist) ==
    LET t == [s EXCEPT !.calls = Append(@, "history"), !.hist = hist] IN
    IF hist.kind = "throws" THEN Raise(t, "history")
    ELSE IF hist.kind = "frame" /\ hist.len = 0 THEN Return(t, 0, <<"No data found">>)
    ELSE IF hist.kind = "malformed" THEN Raise(t, "'Close'")
    ELSE IF hist.close < HARD_MIN_PRICE THEN Return(t, 0, <<"Price < $2 (Hard Filter)">>)
    ELSE [t EXCEPT !.pc = "ma", !.len = hist.len, !.current_price = hist.close]

\* Mutant of StepMA: the stack is computed from 199 bars on.
StepMAOffByOne(s, m) ==
    LET t == [s EXCEPT !.pc = "rvol"] IN
    IF s.len >= 199
    THEN IF m.kind = "raise" THEN Raise(s, "ma")
         ELSE IF m.sma20 > m.sma50 /\ m.sma50 > m.sma200
              THEN Add(t, "ma", 30, "MA Stack (20>50>200): +30")
              ELSE Add(t, "ma", 0, "No MA Stack")
    ELSE Add(t, "ma", 0, "Not enough data for MA Stack")

\* Lines 31-43: moving-average stack.
StepMA(s, m) ==
    LET t == [s EXCEPT !.pc = "rvol"] IN
    IF s.len >= 200
    THEN IF m.kind = "raise" THEN Raise(s, "ma")
         ELSE IF m.sma20 > m.sma50 /\ m.sma50 > m.sma200
              THEN Add(t, "ma", 30, "MA Stack (20>50>200): +30")
              ELSE Add(t, "ma", 0, "No MA Stack")
    ELSE Add(t, "ma", 0, "Not enough data for MA Stack")

\* Lines 45-64: relative volume; rvol > 1.5 is 2 * today_vol > 3 * avg_vol_14.
StepRVOL(s, v) ==
    LET t == [s EXCEPT !.pc = "high"] IN
    IF s.len >= 15
    THEN IF v.kind = "raise" THEN Raise(s, "rvol")
         ELSE IF v.avg_vol_14 > 0
              THEN IF 2 * v.today_vol > 3 * v.avg_vol_14
                   THEN Add(t, "rvol", 20, "RVOL > 1.5: +20")
                   ELSE Add(t, "rvol", 0, "RVOL <= 1.5")
              ELSE Add(t, "rvol", 0, "Avg Vol is 0")
    ELSE Add(t, "rvol", 0, "Not enough data for RVOL")

\* Lines 66-72: current_price >= high_52w * 0.95.
StepHigh(s, h) ==
    LET t == [s EXCEPT !.pc = "atr"] IN
    IF h.kind = "raise" THEN Raise(s, "high")
    ELSE IF s.current_price * 100 >= h.high_52w * 95
         THEN Add(t, "high", 20, "Price within 5% of 52w High: +20")
         ELSE Add(t, "high", 0, "Price not near 52w High")

\* Mutant of StepATR: too short a history leaves no reason behind.
StepATRSilent(s, a) ==
    LET t == [s EXCEPT !.pc = "news"] IN
    IF s.len >= 15
    THEN IF a.kind = "raise" THEN Raise(s, "atr")
         ELSE IF a.atr_14 * 100 < s.current_price * 5
              THEN Add(t, "atr", 10, "ATR < 5% Price: +10")
              ELSE Add(t, "atr", 0, "ATR >= 5% Price")
    ELSE t

\* Lines 74-92: atr_14 < current_price * 0.05.
StepATR(s, a) ==
    LET t == [s EXCEPT !.pc = "news"] IN
    IF s.len >= 15
    THEN IF a.kind = "raise" THEN Raise(s, "atr")
         ELSE IF a.atr_14 * 100 < s.current_price * 5
              THEN Add(t, "atr", 10, "ATR < 5% Price: +10")
              ELSE Add(t, "atr", 0, "ATR >= 5% Price")
    ELSE Add(t, "atr", 0, "Not enough data for ATR")

\* Lines 94-102: news sentiment.
StepNews(s, news) ==
    LET t == [s EXCEPT !.pc = "analyst", !.calls = Append(@, "news")]
        sentiment_score == analyze_sentiment(news)
    IN  IF sentiment_score > 0 THEN Add(t, "news", sentiment_score, "Positive News Sentiment")
        ELSE IF sentiment_score < 0 THEN Add(t, "news", sentiment_score, "Negative News Sentiment")
        ELSE Add(t, "news", 0, "Neutral/No News Sentiment")

\* Lines 111-120: the target-price adjustment; target > price * 1.20 is
\* 5 * target > 6 * price.
TargetStep(s, target_price) ==
    IF target_price # NoTarget
    THEN IF 5 * target_price > 6 * s.current_price
         THEN Add(s, "target", 10, "Analyst Upside > 20%: +10")
         ELSE IF s.current_price > target_price
              THEN Add(s, "target", -10, "Price > Analyst Target: -10")
              ELSE s
    ELSE s

\* Lines 122-125: the recommendation adjustment.
RatingStep(s, recommendation) ==
    IF recommendation \in {R_buy, R_strong_buy}
    THEN Add(s, "rating", 5, "Analyst Rating: +5")
    ELSE s

\* Lines 104-134: analyst data, then the return of the joined details.
StepAnalyst(s, info) ==
    LET t == [s EXCEPT !.calls = Append(@, "info"), !.info = info]
        u == IF info.kind = "throws" \/ info.recommendationKey = RecNone
             THEN [t EXCEPT !.details = Append(@, "No Analyst Data")]
             ELSE RatingStep(TargetStep(t, info.targetMeanPrice), lower(info.recommendationKey))
    IN  Return(u, u.score, Join(u.details))

\* analyze_stock on one ticker's provider data, start to return (the ticker
\* itself is only echoed in the result).
analyze_stock(inp) ==
    LET s1 == StepHistory(NewAnalysis, inp.hist)
        s2 == IF s1.pc = "ma" THEN StepMA(s1, inp.ma) ELSE s1
        s3 == IF s2.pc = "rvol" THEN StepRVOL(s2, inp.rvol) ELSE s2
        s4 == IF s3.pc = "high" THEN StepHigh(s3, inp.high) ELSE s3
        s5 == IF s4.pc = "atr" THEN StepATR(s4, inp.atr) ELSE s4
        s6 == IF s5.pc = "news" THEN StepNews(s5, inp.news) ELSE s5
    IN  IF s6.pc = "analyst" THEN StepAnalyst(s6, inp.info) ELSE s6

(* --------------------- run_scanner: deep-scan inputs -------------------- *)

\* The provider data the pipeline's deep analysis may meet for a ticker: the
\* history lookup fails, the price is under the hard filter, or a full history
\* with the moving-average stack, relative volume and 52-week-high factors
\* firing (30 + 20 + 20), to which either a 'Buy' rating adds 5 (75) or a quiet
\* ATR adds 10 (80).
DeepInputs ==
    {[hist |-> h,
      ma |-> [kind |-> "ok", sma20 |-> 3, sma50 |-> 2, sma200 |-> 1],
      rvol |-> [kind |-> "ok", today_vol |-> 4, avg_vol_14 |-> 2],
      high |-> [kind |-> "ok", high_52w |-> 200],
      atr |-> [kind |-> "ok", atr_14 |-> x[1]],
      news |-> [kind |-> "list", items |-> <<T_plain>>],
      info |-> [kind |-> "info", targetMeanPrice |-> NoTarget, recommendationKey |-> x[2]]] :
        h \in {[kind |-> "throws", len |-> 0, close |-> 0],
               [kind |-> "frame", len |-> 200, close |-> 199],
               [kind |-> "frame", len |-> 200, close |-> 200]},
        x \in {<<10, R_Buy>>, <<9, RecAbsent>>}}

\* Each input with the scorer's state at its return.
DeepOutcomes == {[inp |-> inp, s |-> analyze_stock(inp)] : inp \in DeepInputs}

(* ------------------------------- state --------------------------------- *)

VARIABLES
    pc,               \* run_scanner's position
    tickers,          \* the universe get_all_tickers returned
    i,                \* the batch loop's offset
    batch,            \* tickers[i:i + BATCH_SIZE]
    data,             \* the bulk download of the batch: symbol -> slice
    survivors,        \* (ticker, fast_close) pairs of the batch
    j,                \* position in survivors of the deep-analysis loop
    total_survivors,
    total_saved,
    batch_saved,
    store,            \* rows of sniper_signals this run inserted
    sources,          \* history: the universe sources contacted, with what came back
    downloads,        \* history: one entry per bulk download
    analyzed,         \* history: one entry per analyze_stock call of run_scanner
    sleeps,           \* history: number of time.sleep(1) calls
    sc,               \* SniperScorer.analyze_stock's locals (SpecScorer)
    sn,               \* SniperScorer._analyze_sentiment's call (SpecSentiment)
    response          \* what trigger_scan returned for the /scan request

vars ==
    <<pc, tickers, i, batch, data, survivors, j, total_survivors, total_saved,
      batch_saved, store, sources, downloads, analyzed, sleeps, sc, sn, response>>

universe_vars == <<tickers, sources>>

batch_vars == <<i, batch, data, survivors, j, total_survivors, total_saved, batch_saved>>

history_vars == <<store, downloads, analyzed, sleeps>>

NoData == [t \in {} |-> 0]

\* trigger_scan has not returned yet.
NoResponse == [status |-> "none", message |-> "", code |-> 0]

Init ==
    /\ pc = "start"
    /\ tickers = <<>>
    /\ i = 0
    /\ batch = <<>>
    /\ data = NoData
    /\ survivors = <<>>
    /\ j = 1
    /\ total_survivors = 0
    /\ total_saved = 0
    /\ batch_saved = 0
    /\ store = <<>>
    /\ sources = <<>>
    /\ downloads = <<>>
    /\ analyzed = <<>>
    /\ sleeps = 0
    /\ sc = NewAnalysis
    /\ sn = [pc |-> "call", news |-> [kind |-> "none", items |-> <<>>], sentiment_score |-> 0]
    /\ response = NoResponse

(* --------------------------- run_scanner -------------------------------- *)

\* Lines 92-97: the store's URL and key from the environment.
CheckCredentials ==
    /\ pc = "start"
    /\ \E url, key \in BOOLEAN :
          pc' = IF ~url \/ ~key THEN "return_nocreds" ELSE "client"
    /\ UNCHANGED <<universe_vars, batch_vars, history_vars, sc, sn, response>>

\* Lines 99-100: create_client is outside every try; it may raise.
CreateClient ==
    /\ pc = "client"
    /\ \E raises \in BOOLEAN :
          pc' = IF raises THEN "raised" ELSE "universe"
    /\ UNCHANGED <<universe_vars, batch_vars, history_vars, sc, sn, response>>

\* Lines 28-52 of get_all_tickers: the exchange listing.
Method1 ==
    /\ pc = "universe"
    /\ \E resp \in PrimaryResponses :
          /\ sources' = Append(sources,
                 [source |-> "primary",
                  outcome |-> IF resp.kind = "rows" /\ resp.rows = <<>> THEN "norows" ELSE resp.kind])
          /\ IF PrimaryHasRows(resp)
             THEN /\ tickers' = CleanPrimary(resp.rows)
                  /\ pc' = "got_universe"
             ELSE /\ tickers' = <<>>
                  /\ pc' = "fallback"
    /\ UNCHANGED <<batch_vars, history_vars, sc, sn, response>>

\* Lines 54-72 of get_all_tickers: the index constituents.
Method2 ==
    /\ pc = "fallback"
    /\ \E resp \in FallbackResponses :
          /\ sources' = Append(sources, [source |-> "fallback", outcome |-> resp.kind])
          /\ tickers' = IF resp.kind = "throws" THEN <<>> ELSE CleanFallback(resp.rows)
          /\ pc' = "got_universe"
    /\ UNCHANGED <<batch_vars, history_vars, sc, sn, response>>

\* Mutant of NoTickers: the empty universe is not checked for.
NoTickersUnchecked(tickers_) == FALSE

\* Line 104: not tickers
NoTickers(tickers_) == tickers_ = <<>>

\* Lines 103-113: the empty-universe return, else the loop's initial values.
CheckUniverse ==
    /\ pc = "got_universe"
    /\ pc' = IF NoTickers(tickers) THEN "return_nouniverse" ELSE "batch"
    /\ UNCHANGED <<universe_vars, batch_vars, history_vars, sc, sn, response>>

\* tickers[i:i + BATCH_SIZE]
Slice(tickers_, i_) == SubSeq(tickers_, i_ + 1, Min(i_ + BATCH_SIZE, Len(tickers_)))

\* Mutant of AfterSkip: break instead of continue.
AfterSkipBreak(i_, total_tickers) == total_tickers

\* Where the loop goes from a batch whose download threw or came back empty:
\* continue, that is the next offset of range(0, total_tickers, BATCH_SIZE).
AfterSkip(i_, total_tickers) == i_ + BATCH_SIZE

\* Mutant of BatchExcept: no handler, the exception leaves run_scanner.
BatchExceptPropagates == "raised"

\* Lines 160-162: the handler of the batch's try leaves run_scanner in the loop.
BatchExcept == "batch"

\* Mutant of NewSurvivors: the list is not emptied at the batch's start.
NewSurvivorsKept(old, found) == old \o found

\* Lines 123 and 155: survivors = [] at the batch's start, then the appends.
NewSurvivors(old, found) == found

\* Lines 115-165: one batch's bulk download and fast filter.
FilterBatch ==
    /\ pc = "batch"
    /\ i < Len(tickers)
    /\ batch' = Slice(tickers, i)
    /\ \E outcome \in {"throws", "empty", "ok"} :
          /\ downloads' = Append(downloads, [i |-> i, outcome |-> outcome, sleeps |-> sleeps])
          /\ IF outcome = "throws"
             THEN /\ pc' = BatchExcept
                  /\ i' = AfterSkip(i, Len(tickers))
                  /\ survivors' = NewSurvivors(survivors, <<>>)
                  /\ UNCHANGED <<data, j, total_survivors, batch_saved>>
             ELSE IF outcome = "empty"
             THEN /\ pc' = "batch"
                  /\ i' = AfterSkip(i, Len(tickers))
                  /\ data' = NoData
                  /\ survivors' = NewSurvivors(survivors, <<>>)
                  /\ UNCHANGED <<j, total_survivors, batch_saved>>
             ELSE \E d \in [Range(batch') -> Slices] :
                  /\ data' = d
                  /\ survivors' = NewSurvivors(survivors, FastFilter(batch', d))
                  /\ total_survivors' = total_survivors + Len(survivors')
                  /\ batch_saved' = 0
                  /\ j' = 1
                  /\ pc' = "deep"
                  /\ UNCHANGED i
    /\ UNCHANGED <<universe_vars, total_saved, store, analyzed, sleeps, sc, sn, response>>

\* Mutant of Accept: the threshold made inclusive.
AcceptInclusive(score) == score >= SCORE_THRESHOLD

\* Line 174
Accept(score) == score > SCORE_THRESHOLD

\* Mutant of entry_price_of: the scorer's own current price.
entry_price_deep(fast_close, s) == s.current_price

\* Line 188: the entry price handed to save_signal is the fast filter's close;
\* s is the scorer's state at its return (its current_price is not returned).
entry_price_of(fast_close, s) == fast_close

\* Lines 77-83: the row save_signal inserts.
SignalRow(ticker, entry_price, score, reasons) ==
    [ticker |-> ticker, entry_price |-> entry_price, confidence_score |-> score,
     reasons |-> reasons, status |-> "OPEN"]

\* Mutant of SavedIncrement: the count ignores save_signal's return value.
SavedIncrementAlways(saved) == 1

\* Lines 188-189: batch_saved counts the calls of save_signal that returned True.
SavedIncrement(saved) == IF saved THEN 1 ELSE 0

\* Lines 169-194: one survivor's deep analysis and, above the threshold, its
\* save_signal call (lines 74-88), whose insert may fail.
DeepAnalysis ==
    /\ pc = "deep"
    /\ j <= Len(survivors)
    /\ \E o \in DeepOutcomes, insert_ok \in BOOLEAN :
          LET ticker == survivors[j][1]
              fast_close == survivors[j][2]
              s == o.s
              score == s.result.final_score
              calls_save == s.pc = "ret" /\ Accept(score)
              saved == calls_save /\ insert_ok
          IN  /\ ~calls_save => insert_ok
              /\ store' = IF saved
                          THEN Append(store, SignalRow(ticker, entry_price_of(fast_close, s),
                                                       score, s.result.details))
                          ELSE store
              /\ batch_saved' = batch_saved + SavedIncrement(saved)
              /\ analyzed' = Append(analyzed,
                     [i |-> i, ticker |-> ticker, fast_close |-> fast_close,
                      current_price |-> s.current_price, raised |-> s.pc # "ret",
                      score |-> score,
                      save |-> IF ~calls_save THEN "none" ELSE IF saved THEN "ok" ELSE "failed"])
    /\ j' = j + 1
    /\ UNCHANGED <<pc, universe_vars, i, batch, data, survivors, total_survivors,
                   total_saved, downloads, sleeps, sc, sn, response>>

\* Lines 196-200: the batch's totals and the inter-batch sleep.
BatchEnd ==
    /\ pc = "deep"
    /\ j > Len(survivors)
    /\ total_saved' = total_saved + batch_saved
    /\ sleeps' = sleeps + 1
    /\ i' = i + BATCH_SIZE
    /\ pc' = "batch"
    /\ UNCHANGED <<universe_vars, batch, data, survivors, j, total_survivors, batch_saved,
                   store, downloads, analyzed, sc, sn, response>>

\* Lines 202-207: the summary, after the last batch.
Summary ==
    /\ pc = "batch"
    /\ i >= Len(tickers)
    /\ pc' = "done"
    /\ UNCHANGED <<universe_vars, batch_vars, history_vars, sc, sn, response>>

\* Mutant of ErrorResponse: the handler reports the scan as completed.
ErrorResponseSuccess(e) ==
    [status |-> "success", message |-> "Market scan completed successfully.", code |-> 200]

\* main.py lines 34-37: jsonify({"status": "error", "message": str(e)}), 500
ErrorResponse(e) == [status |-> "error", message |-> e, code |-> 500]

\* main.py lines 26-30
SuccessResponse ==
    [status |-> "success", message |-> "Market scan completed successfully.", code |-> 200]

\* main.py lines 22-30: run_scanner returned, from any of its returns.
ScanReturned ==
    /\ pc \in {"done", "return_nocreds", "return_nouniverse"}
    /\ response = NoResponse
    /\ response' = SuccessResponse
    /\ UNCHANGED <<pc, universe_vars, batch_vars, history_vars, sc, sn>>

\* main.py lines 32-37: run_scanner raised (create_client's exception).
ScanRaised ==
    /\ pc = "raised"
    /\ response = NoResponse
    /\ response' = ErrorResponse("create_client")
    /\ UNCHANGED <<pc, universe_vars, batch_vars, history_vars, sc, sn>>

Next ==
    \/ CheckCredentials
    \/ CreateClient
    \/ Method1
    \/ Method2
    \/ CheckUniverse
    \/ FilterBatch
    \/ DeepAnalysis
    \/ BatchEnd
    \/ Summary
    \/ ScanReturned
    \/ ScanRaised

Spec == Init /\ [][Next]_vars

(* ----------------------- SniperScorer.analyze_stock --------------------- *)

pipeline_vars ==
    <<pc, tickers, i, batch, data, survivors, j, total_survivors, total_saved,
      batch_saved, store, sources, downloads, analyzed, sleeps, response>>

ScHistory ==
    /\ sc.pc = "history"
    /\ \E hist \in HistOutcomes : sc' = StepHistory(sc, hist)
    /\ UNCHANGED <<pipeline_vars, sn>>

ScMA ==
    /\ sc.pc = "ma"
    /\ \E m \in MAInputs : sc' = StepMA(sc, m)
    /\ UNCHANGED <<pipeline_vars, sn>>

ScRVOL ==
    /\ sc.pc = "rvol"
    /\ \E v \in RVOLInputs : sc' = StepRVOL(sc, v)
    /\ UNCHANGED <<pipeline_vars, sn>>

ScHigh ==
    /\ sc.pc = "high"
    /\ \E h \in HighInputs : h.high_52w >= sc.current_price /\ sc' = StepHigh(sc, h)
    /\ UNCHANGED <<pipeline_vars, sn>>

ScATR ==
    /\ sc.pc = "atr"
    /\ \E a \in ATRInputs : sc' = StepATR(sc, a)
    /\ UNCHANGED <<pipeline_vars, sn>>

ScNews ==
    /\ sc.pc = "news"
    /\ \E news \in NewsOutcomes : sc' = StepNews(sc, news)
    /\ UNCHANGED <<pipeline_vars, sn>>

ScAnalyst ==
    /\ sc.pc = "analyst"
    /\ \E info \in InfoOutcomes : sc' = StepAnalyst(sc, info)
    /\ UNCHANGED <<pipeline_vars, sn>>

ScNext ==
    \/ ScHistory
    \/ ScMA
    \/ ScRVOL
    \/ ScHigh
    \/ ScATR
    \/ ScNews
    \/ ScAnalyst

SpecScorer == Init /\ [][ScNext]_vars

(* -------------------- SniperScorer._analyze_sentiment ------------------- *)

\* One call of _analyze_sentiment, on what stock.news gives.
SnCall ==
    /\ sn.pc = "call"
    /\ \E news \in SentimentNews :
          sn' = [pc |-> "ret", news |-> news, sentiment_score |-> analyze_sentiment(news)]
    /\ UNCHANGED <<pipeline_vars, sc>>

SnNext == SnCall

SpecSentiment == Init /\ [][SnNext]_vars

(* ------------------------------- claims --------------------------------- *)

Indices(s) == 1..Len(s)

\* The analyze_stock calls that ended in a successful insert, in order.
IsSavedEntry(a) == a.save = "ok"

SavedEntries == SelectSeq(analyzed, IsSavedEntry)

\* Number of iterations of range(0, len(tickers), BATCH_SIZE).
NumBatches == (Len(tickers) + BATCH_SIZE - 1) \div BATCH_SIZE

\* run_scanner has returned or raised and the request was answered: no step
\* is left to take.
Terminated == ~ENABLED Next

\* C1: run_scanner calls save_signal for a deep-scored survivor if and only if
\* its final_score is strictly greater than 75: never at 75 or below, always
\* above; and every row in the store has a score above 75.
C1_ThresholdGate ==
    /\ \A k \in Indices(analyzed) :
          /\ analyzed[k].score <= 75 => analyzed[k].save = "none"
          /\ analyzed[k].score > 75 => analyzed[k].save \in {"ok", "failed"}
    /\ \A n \in Indices(store) : store[n].confidence_score > 75

\* C1 witness: in one run a survivor scored exactly 75 and was not saved, and a
\* survivor scored 80 (the next score the factors can add up to) and was saved.
C1_Witness ==
    /\ \E k \in Indices(analyzed) : analyzed[k].score = 75 /\ analyzed[k].save = "none"
    /\ \E k \in Indices(analyzed) : analyzed[k].score = 80 /\ analyzed[k].save = "ok"

\* C2: every signal in the store carries as entry_price the close the fast
\* filter read for its ticker in the bulk download of the same batch, not the
\* scorer's current price.
C2_EntryPriceIsFastClose ==
    /\ Len(store) = Len(SavedEntries)
    /\ \A n \in Indices(store) :
          /\ store[n].ticker = SavedEntries[n].ticker
          /\ store[n].entry_price = SavedEntries[n].fast_close
    /\ pc = "deep" =>
          \A k \in Indices(analyzed) :
              analyzed[k].i = i =>
                  /\ analyzed[k].ticker \in DOMAIN data
                  /\ analyzed[k].fast_close = data[analyzed[k].ticker].close

\* C2 witness: a signal was stored whose fast-filter close (10.00) differs from
\* the price the scorer read (2.00), while its batch's download is still at hand.
C2_Witness ==
    /\ pc = "deep"
    /\ \E k \in Indices(analyzed) :
          /\ analyzed[k].i = i
          /\ analyzed[k].save = "ok"
          /\ analyzed[k].fast_close = 1000
          /\ analyzed[k].current_price = 200

\* The claim's condition on a ticker of the batch, on the download at hand.
C3_Qualifies(t) ==
    /\ t \in DOMAIN data
    /\ data[t].kind = "row"
    /\ data[t].close # NaN
    /\ data[t].volume # NaN
    /\ data[t].close >= 200
    /\ data[t].close * data[t].volume >= 500000000

\* C3: after a batch's fast filter the survivors are exactly the batch's tickers
\* that have a last row with close and volume present, close >= 2.00 and
\* close * volume >= 5,000,000, each with that close, in batch order; and only
\* those are handed to the deep scorer.
C3_FastFilterGate ==
    pc = "deep" =>
        /\ Len(survivors) = Len(SelectSeq(batch, C3_Qualifies))
        /\ \A n \in Indices(survivors) :
              /\ survivors[n][1] = SelectSeq(batch, C3_Qualifies)[n]
              /\ survivors[n][2] = data[survivors[n][1]].close
        /\ \A k \in Indices(analyzed) : analyzed[k].i = i => C3_Qualifies(analyzed[k].ticker)

\* C3 witness: a batch of two tickers, one exactly on both bounds (2.00,
\* 2,500,000 shares) that survived and was deep-scored, one a share short that
\* was dropped.
C3_Witness ==
    /\ pc = "deep"
    /\ Len(batch) = 2
    /\ Len(survivors) = 1
    /\ \E t \in Range(batch) : data[t].kind = "row" /\ data[t].close = 200 /\ data[t].volume = 2499999
    /\ data[survivors[1][1]].close = 200
    /\ data[survivors[1][1]].volume = 2500000
    /\ \E k \in Indices(analyzed) : analyzed[k].i = i

\* C4: analyze_stock never raises; when an exception reaches its outer handler
\* the result is final_score 0 with the error message as its only reason,
\* whatever had been accumulated.
C4_NeverRaises ==
    /\ sc.pc # "raised"
    /\ sc.error # "" =>
          /\ sc.pc = "ret"
          /\ sc.result.final_score = 0
          /\ sc.result.details = <<"Error: " \o sc.error>>

\* C4 witness: a factor raised after a contribution and reasons had been
\* accumulated, and analyze_stock returned.
C4_Witness ==
    /\ sc.error # ""
    /\ sc.pc = "ret"
    /\ sc.score > 0
    /\ Len(sc.details) >= 2

\* C5: with an empty history, or a most recent close under 2.00, analyze_stock
\* returns final_score 0 with exactly one reason, having evaluated no factor and
\* made no lookup but the history's.
C5_HardFilterShortCircuits ==
    (sc.hist.kind = "frame" /\ (sc.hist.len = 0 \/ sc.hist.close < 200)) =>
        /\ sc.pc = "ret"
        /\ sc.result.final_score = 0
        /\ Len(sc.result.details) = 1
        /\ sc.factors = <<>>
        /\ sc.calls = <<"history">>
        /\ sc.score = 0

\* C5 witness: a full year of history whose last close is 1.99.
C5_Witness ==
    /\ sc.hist.kind = "frame"
    /\ sc.hist.len = 200
    /\ sc.hist.close = 199
    /\ sc.pc = "ret"

\* C6 as stated: no exception leaves run_scanner, and a run that has ended
\* either reached the summary or returned at the empty universe.
C6_Original ==
    /\ pc # "raised"
    /\ Terminated => pc \in {"done", "return_nouniverse"}

\* C6 amended: no exception of the batch loop (download, slices, analysis,
\* insert) leaves run_scanner: the only raise is create_client's, before the
\* universe is resolved; a run that has ended reached the summary, or returned
\* at the credentials check or at the empty universe, or raised in
\* create_client; and once a batch was downloaded the run ends in the summary.
C6_EndsInSummaryOrEarlyReturn ==
    /\ pc = "raised" => sources = <<>> /\ downloads = <<>> /\ analyzed = <<>>
    /\ Terminated => pc \in {"done", "return_nocreds", "return_nouniverse", "raised"}
    /\ pc \in {"return_nocreds", "return_nouniverse"} => downloads = <<>>
    /\ (Terminated /\ downloads # <<>>) => pc = "done"

\* C6 witness: a run reached the summary although a download threw, an
\* analysis failed in its history lookup and an insert failed.
C6_Witness ==
    /\ pc = "done"
    /\ \E k \in Indices(downloads) : downloads[k].outcome = "throws"
    /\ \E k \in Indices(analyzed) : analyzed[k].save = "failed"
    /\ \E k \in Indices(analyzed) : analyzed[k].current_price = 0

\* C7: a batch whose download throws or comes back empty is skipped: none of
\* its tickers is deep-scored or saved, the batch is downloaded once only, the
\* totals move only with the batches that were filtered, and the loop goes on:
\* the batches are downloaded in order, each once, all of them by the summary.
C7_SkippedBatch ==
    /\ \A k \in Indices(downloads) :
          /\ downloads[k].i = (k - 1) * BATCH_SIZE
          /\ downloads[k].outcome \in {"throws", "empty"} =>
                \A n \in Indices(analyzed) : analyzed[n].i # downloads[k].i
    /\ total_survivors =
          Len(analyzed) + (IF pc = "deep" THEN Len(survivors) - (j - 1) ELSE 0)
    /\ total_saved + (IF pc = "deep" THEN batch_saved ELSE 0) = Len(store)
    /\ pc = "done" => Len(downloads) = NumBatches

\* C7 witness: the first batch's download threw, the second batch was filtered,
\* a survivor of it was saved, and the run reached the summary.
C7_Witness ==
    /\ pc = "done"
    /\ Len(downloads) = 2
    /\ downloads[1].outcome = "throws"
    /\ downloads[2].outcome = "ok"
    /\ total_saved = 1

\* C8: a failed insert is not retried and does not stop the run: every survivor
\* is analysed once whatever happened to the inserts before it, every batch is
\* downloaded, and the saved totals count exactly the inserts that succeeded.
C8_FailedInsert ==
    /\ Len(store) = Len(SavedEntries)
    /\ total_saved + (IF pc = "deep" THEN batch_saved ELSE 0) = Len(SavedEntries)
    /\ pc = "deep" =>
          /\ batch_saved = Cardinality({k \in Indices(analyzed) : analyzed[k].i = i /\ analyzed[k].save = "ok"})
          /\ Cardinality({k \in Indices(analyzed) : analyzed[k].i = i}) = j - 1
    /\ pc = "done" =>
          /\ total_survivors = Len(analyzed)
          /\ Len(downloads) = NumBatches

\* C8 witness: an insert failed, a later survivor of the same batch and a
\* survivor of the next batch were saved, and the summary reports two saved.
C8_Witness ==
    /\ pc = "done"
    /\ Len(analyzed) = 3
    /\ analyzed[1].save = "failed"
    /\ analyzed[2].save = "ok" /\ analyzed[2].i = analyzed[1].i
    /\ analyzed[3].save = "ok" /\ analyzed[3].i > analyzed[1].i
    /\ total_saved = 2

\* C9: every symbol get_all_tickers returns, from either source, contains no
\* '.', no '-' and no non-alphabetic character.
C9_CleanSymbols ==
    \A n \in Indices(tickers) :
        /\ \A k \in Indices(tickers[n]) : tickers[n][k] \notin {".", "-"}
        /\ \A k \in Indices(tickers[n]) : tickers[n][k] \in Alpha

\* C10: get_all_tickers returns no symbol twice, so no ticker is deep-scored
\* twice in a run.
C10_UniqueSymbols ==
    /\ \A m, n \in Indices(tickers) : m # n => tickers[m] # tickers[n]
    /\ \A m, n \in Indices(analyzed) : m # n => analyzed[m].ticker # analyzed[n].ticker

\* Both universe sources failed: the exchange listing raised or came back
\* without rows, and the index table raised.
C11_BothSourcesFailed ==
    /\ Len(sources) = 2
    /\ sources[1].outcome \in {"throws", "nodata", "norows"}
    /\ sources[2].outcome = "throws"

\* C11: when both universe sources fail, get_all_tickers returns the empty
\* list without raising, and run_scanner returns at the empty-universe check:
\* no bulk download, no deep analysis, no insert, no exception to its caller.
C11_EmptyUniverseNoScan ==
    C11_BothSourcesFailed =>
        /\ tickers = <<>>
        /\ pc \in {"got_universe", "return_nouniverse"}
        /\ downloads = <<>>
        /\ analyzed = <<>>
        /\ store = <<>>
        /\ sleeps = 0

\* C11 witness: both sources raised and run_scanner has returned at the
\* empty-universe check.
C11_Witness ==
    /\ Len(sources) = 2
    /\ sources[1].outcome = "throws"
    /\ sources[2].outcome = "throws"
    /\ pc = "return_nouniverse"

\* analyze_stock returned from its last line: the hard filter passed and no
\* exception reached the outer handler.
AnalysisCompleted ==
    /\ sc.pc = "ret"
    /\ sc.error = ""
    /\ sc.hist.kind = "frame" /\ sc.hist.len > 0 /\ sc.hist.close >= 200

\* The entries the display gets by splitting the reasons trail.
Entries == split(sc.result.details)

\* The reasons of each factor.
MAReasons == {"MA Stack (20>50>200): +30", "No MA Stack", "Not enough data for MA Stack"}

RVOLReasons == {"RVOL > 1.5: +20", "RVOL <= 1.5", "Avg Vol is 0", "Not enough data for RVOL"}

HighReasons == {"Price within 5% of 52w High: +20", "Price not near 52w High"}

ATRReasons == {"ATR < 5% Price: +10", "ATR >= 5% Price", "Not enough data for ATR"}

NewsReasons == {"Positive News Sentiment", "Negative News Sentiment", "Neutral/No News Sentiment"}

TargetReasons == {"Analyst Upside > 20%: +10", "Price > Analyst Target: -10"}

RatingReasons == {"Analyst Rating: +5"}

AnalystReasons == TargetReasons \cup RatingReasons \cup {"No Analyst Data"}

\* The first five entries are the five technical and news factors', in order.
FiveInOrder ==
    /\ Len(Entries) >= 5
    /\ Entries[1] \in MAReasons
    /\ Entries[2] \in RVOLReasons
    /\ Entries[3] \in HighReasons
    /\ Entries[4] \in ATRReasons
    /\ Entries[5] \in NewsReasons

\* C12 as stated: a completed analysis' reasons trail splits into exactly six
\* entries, one per factor, in the order MA stack, relative volume, 52-week
\* high, ATR, news, analyst.
C12_Original ==
    AnalysisCompleted =>
        /\ FiveInOrder
        /\ Len(Entries) = 6
        /\ Entries[6] \in AnalystReasons

\* C12 amended: a completed analysis' reasons trail splits into exactly one
\* entry for each of the first five factors, in the order MA stack, relative
\* volume, 52-week high, ATR, news; then come the analyst factor's entries:
\* none, the target's, the rating's, the target's then the rating's, or the one
\* 'No Analyst Data'.
C12_ReasonsInFactorOrder ==
    AnalysisCompleted =>
        /\ FiveInOrder
        /\ \/ Len(Entries) = 5
           \/ Len(Entries) = 6 /\ Entries[6] \in AnalystReasons
           \/ Len(Entries) = 7 /\ Entries[6] \in TargetReasons /\ Entries[7] \in RatingReasons

\* C12 witness: a completed analysis whose analyst data moved nothing (target
\* between the price and 1.2 times it, rating 'hold'): five entries.
C12_Witness ==
    /\ AnalysisCompleted
    /\ sc.info.kind = "info"
    /\ sc.info.targetMeanPrice = 240 /\ sc.current_price = 200
    /\ sc.info.recommendationKey = R_hold
    /\ Len(Entries) = 5

\* What the analyst block added to the score: the score less the five
\* contributions before it.
AnalystContribution == sc.score - SumSeq(SubSeq(sc.deltas, 1, 5))

\* The claim's target adjustment.
C13_TargetPart ==
    IF sc.info.targetMeanPrice = NoTarget THEN 0
    ELSE IF 5 * sc.info.targetMeanPrice > 6 * sc.current_price THEN 10
    ELSE IF sc.current_price > sc.info.targetMeanPrice THEN -10
    ELSE 0

\* The claim's recommendation adjustment; an absent key or a None value is a
\* missing recommendation.
C13_RatingPart ==
    IF sc.info.recommendationKey \in {RecAbsent, RecNone} THEN 0
    ELSE IF lower(sc.info.recommendationKey) \in {R_buy, R_strong_buy} THEN 5
    ELSE 0

\* C13: when the analyst data was read, the analyst factor adds the target
\* adjustment (+10 above 1.2 times the price, else -10 under the price, else 0)
\* plus the recommendation adjustment (+5 for buy or strong_buy), each whatever
\* the other key holds; a missing key is neutral for its own part only.
C13_AnalystIndependent ==
    (AnalysisCompleted /\ sc.info.kind = "info") =>
        AnalystContribution = C13_TargetPart + C13_RatingPart

\* The claim's score of one headline: +10 if its lower-cased title holds any
\* positive keyword, -20 if it holds any negative keyword.
C14_Headline(title) ==
    (IF \E kw \in Range(positive_keywords) : Contains(lower(title), kw) THEN 10 ELSE 0)
        + (IF \E kw \in Range(negative_keywords) : Contains(lower(title), kw) THEN -20 ELSE 0)

\* Reading the news failed: the lookup raised, or one of the three most recent
\* items could not be read.
C14_ReadFailed ==
    \/ sn.news.kind = "throws"
    \/ \E k \in 1..3 : k <= Len(sn.news.items) /\ sn.news.items[k] = T_None

\* C14: _analyze_sentiment returns the sum, over the three most recent
\* headlines only, of +10 for a positive keyword and -20 for a negative keyword
\* in the lower-cased title, both possible on one headline; 0 when reading the
\* news failed.
C14_NewsSentiment ==
    sn.pc = "ret" =>
        sn.sentiment_score =
            IF C14_ReadFailed THEN 0
            ELSE SumSeq([k \in 1..Min(3, Len(sn.news.items)) |-> C14_Headline(sn.news.items[k])])

\* C14 witness: 'buy crash' nets -10, each 'Buy' adds 10 whatever its case, and
\* the fourth headline, 'crash', is not counted.
C14_Witness ==
    /\ sn.pc = "ret"
    /\ sn.news.items = <<T_buy_crash, T_Buy, T_Buy, T_crash>>
    /\ sn.sentiment_score = 10

\* Factor number n (1 MA stack, 2 relative volume, 4 ATR) was passed on too
\* short a history: it added 0 and its reason is the given one, at position n.
C15_Skipped(n, reason) ==
    Len(sc.factors) >= n =>
        /\ sc.deltas[n] = 0
        /\ sc.details[n] = reason
        /\ AnalysisCompleted =>
              /\ Entries[n] = reason
              /\ Cardinality({k \in Indices(Entries) : Entries[k] = reason}) = 1

\* C15: with fewer than 200 bars the MA stack, and with fewer than 15 bars the
\* relative volume and the ATR, add exactly 0 and leave one 'Not enough data'
\* reason each, at the factor's own position; they do not raise, and the
\* other factors are evaluated all the same.
C15_ShortHistory ==
    /\ sc.len < 200 => C15_Skipped(1, "Not enough data for MA Stack")
    /\ sc.len < 15 => C15_Skipped(2, "Not enough data for RVOL")
    /\ sc.len < 15 => C15_Skipped(4, "Not enough data for ATR")
    /\ sc.error = "ma" => sc.len >= 200
    /\ sc.error \in {"rvol", "atr"} => sc.len >= 15
    /\ AnalysisCompleted =>
          /\ SubSeq(sc.factors, 1, 5) = <<"ma", "rvol", "high", "atr", "news">>
          /\ sc.calls = <<"history", "news", "info">>
          /\ sc.result.final_score = SumSeq(sc.deltas)

\* C15 witness: an analysis on 14 bars completed; the three gated factors left
\* their 'Not enough data' reasons, the 52-week-high factor added 20 and the
\* analyst target 10.
C15_Witness ==
    /\ AnalysisCompleted
    /\ sc.len = 14
    /\ Entries[1] = "Not enough data for MA Stack"
    /\ Entries[2] = "Not enough data for RVOL"
    /\ Entries[4] = "Not enough data for ATR"
    /\ sc.deltas = <<0, 0, 20, 0, 0, 10>>
    /\ sc.result.final_score = 30

\* An analyze_stock call of the batch at hand.
InCurrentBatch(a) == a.i = i

\* C16: analyze_stock is called once for each entry of the batch that passed
\* the fast filter, in batch order, and for no other ticker: while a batch is
\* deep-scanned the calls made for it are the first of its qualifying entries,
\* all of them once the loop is over; every call is for a ticker of the batch
\* of its offset; by the summary there are as many calls as survivors, and as
\* many rows in the store as calls that scored above the threshold and whose
\* insert succeeded.
C16_DeepOncePerSurvivor ==
    /\ pc = "deep" =>
          /\ Len(SelectSeq(analyzed, InCurrentBatch)) = j - 1
          /\ j - 1 <= Len(SelectSeq(batch, C3_Qualifies))
          /\ \A n \in 1..(j - 1) :
                /\ SelectSeq(analyzed, InCurrentBatch)[n].ticker = SelectSeq(batch, C3_Qualifies)[n]
                /\ SelectSeq(analyzed, InCurrentBatch)[n].fast_close
                       = data[SelectSeq(batch, C3_Qualifies)[n]].close
          /\ j > Len(survivors) => j - 1 = Len(SelectSeq(batch, C3_Qualifies))
    /\ \A k \in Indices(analyzed) :
          /\ analyzed[k].i <= i
          /\ analyzed[k].ticker \in Range(Slice(tickers, analyzed[k].i))
    /\ pc = "done" => Len(analyzed) = total_survivors
    /\ Len(store) = Cardinality({k \in Indices(analyzed) : analyzed[k].save = "ok"})

\* C16 witness: a universe of three tickers; in the batch at hand one ticker
\* had no data and the other passed the gate, it was analysed once, scored 80
\* and gave the store's one signal; the deep loop is over.
C16_Witness ==
    /\ pc = "deep"
    /\ Len(tickers) = 3
    /\ Len(batch) = 2
    /\ \E t \in Range(batch) : data[t].kind = "absent"
    /\ Len(survivors) = 1
    /\ j = 2
    /\ Len(SelectSeq(analyzed, InCurrentBatch)) = 1
    /\ SelectSeq(analyzed, InCurrentBatch)[1].score = 80
    /\ Len(store) = 1
    /\ store[1].ticker = survivors[1][1]

\* C17: between the bulk download of a batch and the download of the next one
\* the one-second sleep has been made, whatever became of the earlier batch.
C17_SleepBetweenDownloads ==
    \A k \in Indices(downloads) :
        k > 1 => downloads[k].sleeps > downloads[k - 1].sleeps

\* The fallback source was contacted.
FallbackContacted == \E k \in Indices(sources) : sources[k].source = "fallback"

\* C18 as stated: the fallback is contacted only after the primary source
\* raised; a primary request that completed without exception is never
\* followed by the fallback.
C18_Original ==
    FallbackContacted => sources[1].outcome = "throws"

\* C18 amended: the fallback is contacted only after the primary source raised
\* or came back without rows (no data, or an empty row list); a primary
\* listing with rows is returned as cleaned, the empty list included, and the
\* fallback is never contacted; either source is contacted at most once,
\* the primary first.
C18_FallbackOnlyWithoutRows ==
    /\ Len(sources) <= 2
    /\ sources # <<>> => sources[1].source = "primary"
    /\ Len(sources) = 2 => sources[2].source = "fallback"
    /\ FallbackContacted => sources[1].outcome \in {"throws", "nodata", "norows"}
    /\ (sources # <<>> /\ sources[1].outcome \in {"throws", "nodata", "norows"}) =>
          \/ pc = "fallback" /\ Len(sources) = 1
          \/ FallbackContacted
    /\ (sources # <<>> /\ sources[1].outcome = "rows") =>
          /\ Len(sources) = 1
          /\ pc # "fallback"

\* C18 witness: the primary listing had rows, none of which survived the
\* cleaning; run_scanner returned at the empty universe and the fallback was
\* not contacted.
C18_Witness ==
    /\ sources = <<[source |-> "primary", outcome |-> "rows"]>>
    /\ tickers = <<>>
    /\ pc = "return_nouniverse"

\* C19: trigger_scan answers status 'error' with HTTP 500 exactly when
\* run_scanner raised, and otherwise 'success' with HTTP 200 and the message
\* 'Market scan completed successfully.', whichever return run_scanner took
\* and whatever failed inside the run; every request is answered.
C19_ScanResponse ==
    /\ response # NoResponse =>
          /\ pc \in {"done", "return_nocreds", "return_nouniverse", "raised"}
          /\ (response.code = 500 /\ response.status = "error") <=> pc = "raised"
          /\ pc # "raised" =>
                /\ response.code = 200
                /\ response.status = "success"
                /\ response.message = "Market scan completed successfully."
    /\ Terminated => response # NoResponse

\* C19 witness: a run whose first batch's download raised and whose every
\* insert failed left the store empty and was answered with 200.
C19_Witness ==
    /\ pc = "done"
    /\ response.code = 200
    /\ downloads[1].outcome = "throws"
    /\ analyzed # <<>>
    /\ \A k \in Indices(analyzed) : analyzed[k].save = "failed"
    /\ store = <<>>

====
